---- MODULE Spec2Model ----
(***************************************************************************)
(* Model of the service of plivo_test (app/auth.py, app/db.py,              *)
(* app/main.py): registration, login, identity resolution, /me and upload. *)
(*                                                                         *)
(* The service is an asyncio application: every request handler is a      *)
(* coroutine that runs without interruption between two awaits (database   *)
(* calls, the read of the uploaded file, the call of the captioning        *)
(* service).  Each action below is one await of a handler together with    *)
(* the code that runs, uninterrupted, before and after it; `req` holds,    *)
(* per in-flight request, the handler's local variables and its position   *)
(* (pc), and `sent` is the request the last step completed, with its       *)
(* response, until the response has gone out.                              *)
(*                                                                         *)
(* Library behaviour the handlers rely on is modelled by what the library  *)
(* does: passlib's bcrypt handler (NUL check, 72 byte truncation, unknown  *)
(* hash error), python-jose's jwt.encode / jwt.decode (signature,          *)
(* algorithm, exp and sub claim validation), and PostgreSQL (serial        *)
(* primary key, unique constraint on email).                               *)
(***************************************************************************)
EXTENDS Integers, FiniteSets, Sequences, Bags, TLC

(***************************************************************************)
(* Bounds of the model.                                                    *)
(***************************************************************************)
\* number of requests in flight at the same time
MaxReq == 2
\* the clock stops at this day
MaxTime == 8
\* no new register request is accepted by the model once the serial passed this
MaxId == 2
\* the history keeps the first MaxIssued tokens the service returned
MaxIssued == 1

(***************************************************************************)
(* Program constants.                                                      *)
(***************************************************************************)
\* auth.py:9, in days; the clock of the model counts days
ACCESS_TOKEN_EXPIRE_DAYS == 7
\* auth.py:8
ALGORITHM == "HS256"

VARIABLES
    secretSet,   \* whether the environment defines JWT_SECRET (auth.py:7)
    hfTokenSet,  \* whether it defines a non-empty HUGGINGFACE_API_TOKEN (main.py:12)
    serving,     \* the application has started and handles requests
    now,         \* datetime.utcnow(), in days
    users,       \* rows of the users table (db.py:13-20)
    nextId,      \* the serial sequence behind users.id
    req,         \* the bag of requests in flight: locals and position of each handler
    sent,        \* the request the last step completed, with its response
    issued,      \* history: tokens returned by register/login, with issue time
    plain        \* history: email -> password of the successful registration

vars == <<secretSet, hfTokenSet, serving, now, users, nextId, req, sent, issued, plain>>

(***************************************************************************)
(* Inputs.                                                                 *)
(***************************************************************************)
Emails == {"a@x.com", "b@x.com"}

\* A password is a byte string.  first72 names its first 72 bytes (all of it
\* when it is shorter), rest names the bytes after the 72nd ("" when there
\* are none), nul says whether it contains a NUL byte.
Pw(f, r, n) == [first72 |-> f, rest |-> r, nul |-> n]
NoPassword == Pw("", "", FALSE)
\* the passwords clients register with: one of exactly 72 bytes ("p72" names
\* its bytes), and one with a NUL
RegisterPasswords == { Pw("p72", "", FALSE), Pw("nul", "", TRUE) }
\* the passwords clients log in with: the registered one, one that continues
\* it after the 72nd byte, another one, and one with a NUL
LoginPasswords == { Pw("p72", "", FALSE), Pw("p72", "x", FALSE),
                    Pw("wrong", "", FALSE), Pw("nul", "", TRUE) }

\* the salt bcrypt draws for a hash; verification recomputes with the salt
\* embedded in the hash, so which salt was drawn plays no role in it
Salts == {"salt"}

(***************************************************************************)
(* app/auth.py: configuration                                              *)
(***************************************************************************)
\* auth.py:7  os.getenv("JWT_SECRET", "devsecret")
JWT_SECRET == IF secretSet THEN "envsecret" ELSE "devsecret"

(***************************************************************************)
(* app/auth.py: Credential hasher (passlib CryptContext, bcrypt)           *)
(***************************************************************************)
\* a stored hash string: a bcrypt hash, or a string no scheme recognises
Hash(s, d) == [scheme |-> "bcrypt", salt |-> s, digest |-> d]
NoHash == [scheme |-> "none", salt |-> "", digest |-> ""]
MalformedHash == [scheme |-> "unknown", salt |-> "", digest |-> ""]

\* results of a call that may raise
Ret(v) == [raised |-> "", value |-> v]
Raise(e) == [raised |-> e, value |-> FALSE]

\* bcrypt digests only the first 72 bytes of the secret
Truncate72(p) == p.first72

\* auth.py:13-14  pwd_context.hash(password), with the salt it drew
hash_password(password, salt) ==
    IF password.nul THEN [raised |-> "NullPasswordError", value |-> NoHash]
    ELSE [raised |-> "", value |-> Hash(salt, Truncate72(password))]

\* auth.py:16-17  pwd_context.verify(plain, hashed)
verify_password(p, hashed) ==
    IF hashed.scheme # "bcrypt" THEN Raise("UnknownHashError")
    ELSE IF p.nul THEN Raise("NullPasswordError")
    ELSE Ret(Truncate72(p) = hashed.digest)

(***************************************************************************)
(* app/auth.py: Token codec (python-jose, HS256)                           *)
(***************************************************************************)
\* JSON values of a claim: an integer, a string of decimal digits, null, or
\* the claim is absent
IntV(n) == [t |-> "int", v |-> n]
StrV(n) == [t |-> "str", v |-> n]
NullV == [t |-> "null", v |-> 0]
Absent == [t |-> "absent", v |-> 0]

\* a compact JWS: the algorithm of its header, the key its signature was made
\* with, and the claims of its payload; or a string that is no JWS at all
Jws(a, k, s, e, x) ==
    [form |-> "jws", alg |-> a, key |-> k, sub |-> s, email |-> e, exp |-> x]
Garbage == [form |-> "garbage", alg |-> "", key |-> "", sub |-> Absent,
            email |-> "", exp |-> Absent]
NoToken == [form |-> "none", alg |-> "", key |-> "", sub |-> Absent,
            email |-> "", exp |-> Absent]

\* the expires_delta argument: not given (None), or a number of days
NoDelta == [given |-> FALSE, days |-> 0]
Delta(d) == [given |-> TRUE, days |-> d]

\* the data argument: the caller's claims, with an "exp" of its own or none
Data(s, e, x) == [sub |-> s, email |-> e, exp |-> x]

\* auth.py:19-24, called at time utcnow.  A timedelta of zero is falsy, as
\* None is, so "expires_delta or timedelta(days=7)" is the default for both.
create_access_token(data, expires_delta, utcnow) ==
    LET ttl == IF expires_delta.given /\ expires_delta.days # 0
               THEN expires_delta.days ELSE ACCESS_TOKEN_EXPIRE_DAYS
        expire == utcnow + ttl
        to_encode == [data EXCEPT !.exp = IntV(expire)]
    IN Jws(ALGORITHM, JWT_SECRET, to_encode.sub, to_encode.email, to_encode.exp)

\* the payload decode_token returns; None is the invalid sentinel
Payload(s, e, x) == [valid |-> TRUE, sub |-> s, email |-> e, exp |-> x]
None == [valid |-> FALSE, sub |-> Absent, email |-> "", exp |-> Absent]
Decoded(p) == [raised |-> "", payload |-> p]
DecodeRaised(e) == [raised |-> e, payload |-> None]

\* jwt_decode without the check of the exp claim against the clock
jwt_decode_noexp(token, key, utcnow) ==
    IF token.form # "jws" THEN DecodeRaised("JWTError")
    ELSE IF token.alg # ALGORITHM THEN DecodeRaised("JWTError")
    ELSE IF token.key # key THEN DecodeRaised("JWTError")
    ELSE IF token.exp.t \in {"null"} THEN DecodeRaised("TypeError")
    ELSE IF token.sub.t \in {"int", "null"} THEN DecodeRaised("JWTError")
    ELSE Decoded(Payload(token.sub, token.email, token.exp))

\* jose.jwt.decode: what it does with the token, by the first check that fails.
\* "JWTError" stands for JWTError and its subclasses.
jwt_decode(token, key, utcnow) ==
    IF token.form # "jws" THEN DecodeRaised("JWTError")
    ELSE IF token.alg # ALGORITHM THEN DecodeRaised("JWTError")
    ELSE IF token.key # key THEN DecodeRaised("JWTError")
    ELSE IF token.exp.t \in {"null"} THEN DecodeRaised("TypeError")
    ELSE IF token.exp.t = "int" /\ token.exp.v < utcnow
         THEN DecodeRaised("JWTError")
    ELSE IF token.sub.t \in {"int", "null"} THEN DecodeRaised("JWTError")
    ELSE Decoded(Payload(token.sub, token.email, token.exp))

\* auth.py:26-31
decode_token(token, utcnow) ==
    LET r == jwt_decode(token, JWT_SECRET, utcnow)
    IN IF r.raised = "JWTError" THEN Decoded(None) ELSE r

(***************************************************************************)
(* app/db.py: the users table                                              *)
(***************************************************************************)
\* db.py:19  server_default now(): the timestamp the server filled in
ServerNow == "now()"

\* db.py:13-20
Row(i, e, h, c) == [id |-> i, email |-> e, password_hash |-> h, created_at |-> c]
\* what fetch_one returns when no row matches (None)
NoRow == Row(0, "", NoHash, "")

\* main.py:49-51
get_user_by_email(email) ==
    IF \E u \in users : u.email = email
    THEN CHOOSE u \in users : u.email = email
    ELSE NoRow

\* the rows a WHERE users.id = <uid> selects when the driver binds uid as an
\* integer
RowById(n) ==
    IF \E u \in users : u.id = n THEN CHOOSE u \in users : u.id = n ELSE NoRow

\* main.py:53-55.  uid is payload.get("sub"): None compiles to "id IS NULL"
\* and selects nothing; a string is either refused by the driver (asyncpg:
\* DataError) or coerced by the server, depending on the driver DATABASE_URL
\* selects.  The set of possible outcomes.
get_user_by_id(uid) ==
    IF uid.t = "int" THEN { [raised |-> "", row |-> RowById(uid.v)] }
    ELSE IF uid.t = "str"
         THEN { [raised |-> "DataError", row |-> NoRow],
                [raised |-> "", row |-> RowById(uid.v)] }
    ELSE { [raised |-> "", row |-> NoRow] }

\* a table without the unique constraint
UniqueViolation_off(email) == FALSE

\* db.py:17  unique=True: the insert raises when the email is taken
UniqueViolation(email) == \E u \in users : u.email = email

(***************************************************************************)
(* Requests and responses                                                  *)
(***************************************************************************)
\* the Authorization header: absent, or a string, given as its words and the
\* whitespace runs between them
Word(t) == [sp |-> FALSE, text |-> t, tok |-> Garbage]
TokWord(tok) == [sp |-> FALSE, text |-> "jwt", tok |-> tok]
Space == [sp |-> TRUE, text |-> " ", tok |-> NoToken]
NoHeader == [present |-> FALSE, raw |-> <<>>]
Header(raw) == [present |-> TRUE, raw |-> raw]
Bearer(tok) == Header(<<Word("Bearer"), Space, TokWord(tok)>>)

IsWord(a) == ~a.sp
\* str.split(): the words of the string
split(raw) == SelectSeq(raw, IsWord)

\* JSON values in the reply of the captioning service: a string, a number,
\* null, or a key that is absent; truthy is the value's truth in Python
Simple(t, truthy) == [t |-> t, truthy |-> truthy]
JStr == Simple("str", TRUE)
JEmpty == Simple("str", FALSE)
JNum == Simple("num", TRUE)
JNull == Simple("null", FALSE)
JAbsent == Simple("absent", FALSE)
\* an object, by its keys generated_text, caption and label; an array, by
\* its length and first element
Dict(g, c, l) == [t |-> "dict", generated_text |-> g, caption |-> c, label |-> l]
List(n, first) == [t |-> "list", len |-> n, first |-> first]
\* a body that is no JSON; and no body at all
NotJson == Simple("notjson", FALSE)
NoJson == Simple("none", FALSE)

\* main.py:134  first.get(k): None when the key is absent
dict_get(d, k) == IF d[k].t = "absent" THEN JNull ELSE d[k]
\* main.py:134  a or b
Or(a, b) == IF a.truthy THEN a ELSE b
\* main.py:138  str(hf_json)[:1000]: a string, never empty
str(x) == JStr

\* main.py:127-138
Caption(hf_json) ==
    IF hf_json.t = "dict" /\ hf_json.generated_text.t # "absent"
    THEN hf_json.generated_text
    ELSE IF hf_json.t = "list" /\ hf_json.len # 0 /\ hf_json.first.t = "dict"
    THEN LET first == hf_json.first
         IN Or(Or(dict_get(first, "generated_text"), dict_get(first, "caption")),
               dict_get(first, "label"))
    ELSE IF hf_json.t = "str" THEN hf_json
    ELSE str(hf_json)

\* what client.post gives (main.py:119): a response with a status and a
\* body, or an exception of httpx
HfReply(st, j, e) == [status_code |-> st, json |-> j, raised |-> e]
NoReply == HfReply(0, NoJson, "")
HfJson ==
    { Dict(JStr, JAbsent, JAbsent), Dict(JNull, JAbsent, JAbsent),
      Dict(JAbsent, JStr, JAbsent),
      List(0, JAbsent), List(1, Dict(JAbsent, JAbsent, JAbsent)),
      List(1, Dict(JEmpty, JStr, JAbsent)), List(1, Dict(JAbsent, JAbsent, JNum)),
      List(1, JStr),
      JStr, JNum }
HfReplies ==
    { HfReply(200, j, "") : j \in HfJson }
        \cup { HfReply(200, NotJson, ""), HfReply(503, NotJson, ""),
               HfReply(0, NoJson, "ReadTimeout") }

\* main.py:106  8 * 1024 * 1024
MaxUploadBytes == 8 * 1024 * 1024
\* len(contents) of the files clients upload: the largest accepted, and one
\* byte more
Sizes == {MaxUploadBytes, MaxUploadBytes + 1}
\* the file was not read
Unread == -1

NoUser == [id |-> 0, email |-> ""]
\* the row itself as the user of a response
Summary_row(u) == u

Summary(u) == [id |-> u.id, email |-> u.email]

\* a response: status and detail of the HTTPException (or 200 and the body);
\* err names the exception behind an unhandled 500; caption and raw are the
\* body of upload's 200
Resp(st, d, tok, u, c, e) ==
    [status |-> st, detail |-> d, token |-> tok, user |-> u, created_at |-> c,
     err |-> e, caption |-> NoJson, raw |-> NoJson]
NoResp == Resp(0, "", NoToken, NoUser, "", "")
HTTPException(st, d) == Resp(st, d, NoToken, NoUser, "", "")
Unhandled(e) == Resp(500, "Internal Server Error", NoToken, NoUser, "", e)

\* a request: its inputs, the handler's locals and position, its response
Idle == [kind |-> "none", pc |-> "idle", email |-> "", password |-> NoPassword,
         header |-> NoHeader, existing |-> NoRow, hashed |-> NoHash,
         row_id |-> 0, payload |-> None, contents |-> Unread, called |-> FALSE,
         reply |-> NoReply, resp |-> NoResp]
\* the step sent no response
NoSent == Idle

\* history entry: a token returned to a client, the user it was issued for
\* and the time of issue
Issue(tok, i, e, t) == [token |-> tok, id |-> i, email |-> e, at |-> t]

\* tokens a client can make without the service: a string that is no JWS,
\* a JWS signed with a key of the client's own, a JWS with another
\* algorithm, and JWSs signed with the key the source publishes as the
\* fallback (auth.py:7), with claims of the client's choice
ForeignTokens ==
    { Garbage,
      Jws(ALGORITHM, "otherkey", StrV(1), "a@x.com", IntV(0)),
      Jws("none", "devsecret", StrV(1), "a@x.com", IntV(0)),
      Jws(ALGORITHM, "devsecret", StrV(1), "a@x.com", IntV(0)),
      Jws(ALGORITHM, "devsecret", StrV(1), "a@x.com", NullV),
      Jws(ALGORITHM, "devsecret", Absent, "a@x.com", Absent) }

\* header values that are not "Bearer <token>": the empty value, "Basic abc",
\* "bearer x", "Bearer", "Bearer a b"
OtherHeaders ==
    { Header(<<>>),
      Header(<<Word("Basic"), Space, Word("abc")>>),
      Header(<<Word("bearer"), Space, Word("x")>>),
      Header(<<Word("Bearer")>>),
      Header(<<Word("Bearer"), Space, Word("a"), Space, Word("b")>>) }

Headers ==
    {NoHeader} \cup OtherHeaders
               \cup { Bearer(t) : t \in ForeignTokens }
               \cup { Bearer(i.token) : i \in issued }

\* the history after the service returned a token
Record(i) == IF Cardinality(issued) < MaxIssued THEN issued \cup {i} ELSE issued

\* the requests in flight, and whether the server takes one more
InFlight == BagToSet(req)
Free == BagCardinality(req) < MaxReq

\* request q suspends at an await
Suspend(q) ==
    /\ req' = req (+) SetToBag({q})
    /\ sent' = NoSent

\* the handler of the suspended request q ends with locals q2 and response resp
DoneWith(q, q2, resp) ==
    /\ sent' = [q2 EXCEPT !.pc = "done", !.resp = resp]
    /\ req' = req (-) SetToBag({q})

Done(q, resp) == DoneWith(q, q, resp)

\* the handler of the suspended request q goes on to its next await with
\* locals q2
Resume(q, q2) ==
    /\ req' = (req (-) SetToBag({q})) (+) SetToBag({q2})
    /\ sent' = NoSent

\* a request q that the handler answers with resp before its first await ends
Answer(q, resp) ==
    /\ sent' = [q EXCEPT !.pc = "done", !.resp = resp]
    /\ UNCHANGED req

(***************************************************************************)
(* app/main.py: startup, clock                                             *)
(***************************************************************************)
Init ==
    /\ secretSet \in BOOLEAN
    /\ hfTokenSet \in BOOLEAN
    /\ serving = FALSE
    /\ now = 0
    /\ users = {}
    /\ nextId = 1
    /\ req = EmptyBag
    /\ sent = NoSent
    /\ issued = {}
    /\ plain = [e \in Emails |-> NoPassword]

\* main.py:38-42: the module is imported (auth.py:7 read JWT_SECRET with its
\* fallback), the tables are created and the database is connected
Startup ==
    /\ ~serving
    /\ serving' = TRUE
    /\ sent' = NoSent
    /\ UNCHANGED <<secretSet, hfTokenSet, now, users, nextId, req, issued, plain>>

\* time passes: a token's whole lifetime, or a day more
Tick(d) ==
    /\ now + d <= MaxTime
    /\ now' = now + d
    /\ sent' = NoSent
    /\ UNCHANGED <<secretSet, hfTokenSet, serving, users, nextId, req, issued, plain>>

(***************************************************************************)
(* app/main.py:62-72  register                                             *)
(***************************************************************************)
\* register without the check of the lookup's result (main.py:65-66)
Register_nocheck(e, p) ==
    /\ serving
    /\ Free
    /\ nextId <= MaxId
    /\ LET existing == get_user_by_email(e)
           q == [Idle EXCEPT !.kind = "register", !.email = e, !.password = p,
                             !.existing = existing]
       IN \E salt \in Salts :
            LET h == hash_password(p, salt)
            IN IF h.raised # ""
               THEN Answer(q, Unhandled(h.raised))
               ELSE Suspend([q EXCEPT !.pc = "reg_insert", !.hashed = h.value])
    /\ UNCHANGED <<secretSet, hfTokenSet, serving, now, users, nextId, issued, plain>>

\* main.py:63-67: the lookup by email, the 409, the hashing
Register(e, p) ==
    /\ serving
    /\ Free
    /\ nextId <= MaxId
    /\ LET existing == get_user_by_email(e)
           q == [Idle EXCEPT !.kind = "register", !.email = e, !.password = p,
                             !.existing = existing]
       IN IF existing # NoRow
          THEN Answer(q, HTTPException(409, "Email already registered"))
          ELSE \E salt \in Salts :
                 LET h == hash_password(p, salt)
                 IN IF h.raised # ""
                    THEN Answer(q, Unhandled(h.raised))
                    ELSE Suspend([q EXCEPT !.pc = "reg_insert",
                                            !.hashed = h.value])
    /\ UNCHANGED <<secretSet, hfTokenSet, serving, now, users, nextId, issued, plain>>

\* the insert as an upsert: when the email is taken, the row is replaced
RegisterInsert_replace(q) ==
    /\ q \in InFlight
    /\ q.pc = "reg_insert"
    /\ nextId' = nextId + 1
    /\ LET row_id == nextId
           user == [id |-> row_id, email |-> q.email]
           token == create_access_token(Data(IntV(row_id), q.email, Absent),
                                        NoDelta, now)
       IN /\ users' = { u \in users : u.email # q.email } \cup
                {Row(row_id, q.email, q.hashed, ServerNow)}
          /\ plain' = [plain EXCEPT ![q.email] = q.password]
          /\ DoneWith(q, [q EXCEPT !.row_id = row_id],
                      Resp(200, "", token, user, "", ""))
          /\ issued' = Record(Issue(token, row_id, q.email, now))
    /\ UNCHANGED <<secretSet, hfTokenSet, serving, now>>

\* main.py:68-72: the INSERT draws the next id from the serial sequence (also
\* when it then fails) and checks the unique constraint atomically; then the
\* token is issued and returned
RegisterInsert(q) ==
    /\ q \in InFlight
    /\ q.pc = "reg_insert"
    /\ nextId' = nextId + 1
    /\ IF UniqueViolation(q.email)
       THEN /\ Done(q, Unhandled("UniqueViolationError"))
            /\ UNCHANGED <<users, plain, issued>>
       ELSE LET row_id == nextId
                user == [id |-> row_id, email |-> q.email]
                token == create_access_token(Data(IntV(row_id), q.email, Absent),
                                             NoDelta, now)
            IN /\ users' = users \cup
                     {Row(row_id, q.email, q.hashed, ServerNow)}
               /\ plain' = [plain EXCEPT ![q.email] = q.password]
               /\ DoneWith(q, [q EXCEPT !.row_id = row_id],
                           Resp(200, "", token, user, "", ""))
               /\ issued' = Record(Issue(token, row_id, q.email, now))
    /\ UNCHANGED <<secretSet, hfTokenSet, serving, now>>

(***************************************************************************)
(* app/main.py:74-82  login                                                *)
(***************************************************************************)
\* main.py:75-82
Login(e, p) ==
    /\ serving
    /\ Free
    /\ LET user == get_user_by_email(e)
           q == [Idle EXCEPT !.kind = "login", !.email = e, !.password = p,
                             !.existing = user]
           ok == verify_password(p, user.password_hash)
           token == create_access_token(Data(IntV(user.id), user.email, Absent),
                                        NoDelta, now)
       IN IF user = NoRow
          THEN /\ Answer(q, HTTPException(401, "Invalid credentials"))
               /\ UNCHANGED issued
          ELSE IF ok.raised # ""
          THEN /\ Answer(q, Unhandled(ok.raised))
               /\ UNCHANGED issued
          ELSE IF ~ok.value
          THEN /\ Answer(q, HTTPException(401, "Invalid credentials"))
               /\ UNCHANGED issued
          ELSE /\ Answer(q, Resp(200, "", token, Summary(user), "", ""))
               /\ issued' = Record(Issue(token, user.id, user.email, now))
    /\ UNCHANGED <<secretSet, hfTokenSet, serving, now, users, nextId, plain>>

(***************************************************************************)
(* app/main.py:86-100  get_current_user, and main.py:142-144  me           *)
(***************************************************************************)
\* str.lower() of the schemes clients send
Lower(t) == IF t = "Bearer" THEN "bearer" ELSE t

\* get_current_user comparing the scheme without regard to case
get_current_user_anycase(kind, h) ==
    /\ serving
    /\ Free
    /\ LET auth == h
           parts == split(auth.raw)
           q == [Idle EXCEPT !.kind = kind, !.header = h]
       IN IF ~auth.present \/ auth.raw = <<>>
          THEN Answer(q, HTTPException(401, "Missing Authorization header"))
          ELSE IF Len(parts) # 2 \/ Lower(parts[1].text) # "bearer"
          THEN Answer(q, HTTPException(401, "Invalid auth header"))
          ELSE LET d == decode_token(parts[2].tok, now)
               IN IF d.raised # ""
                  THEN Answer(q, Unhandled(d.raised))
                  ELSE IF ~d.payload.valid
                  THEN Answer(q, HTTPException(401, "Invalid token"))
                  ELSE Suspend([q EXCEPT !.pc = "auth_lookup",
                                          !.payload = d.payload])
    /\ UNCHANGED <<secretSet, hfTokenSet, serving, now, users, nextId, issued, plain>>

\* main.py:87-96, run as the dependency of a route (kind) for a request with
\* Authorization header h
get_current_user(kind, h) ==
    /\ serving
    /\ Free
    /\ LET auth == h
           parts == split(auth.raw)
           q == [Idle EXCEPT !.kind = kind, !.header = h]
       IN IF ~auth.present \/ auth.raw = <<>>
          THEN Answer(q, HTTPException(401, "Missing Authorization header"))
          ELSE IF Len(parts) # 2 \/ parts[1].text # "Bearer"
          THEN Answer(q, HTTPException(401, "Invalid auth header"))
          ELSE LET d == decode_token(parts[2].tok, now)
               IN IF d.raised # ""
                  THEN Answer(q, Unhandled(d.raised))
                  ELSE IF ~d.payload.valid
                  THEN Answer(q, HTTPException(401, "Invalid token"))
                  ELSE Suspend([q EXCEPT !.pc = "auth_lookup",
                                          !.payload = d.payload])
    /\ UNCHANGED <<secretSet, hfTokenSet, serving, now, users, nextId, issued, plain>>

\* main.py:142-143: GET /me with Authorization header h
GetCurrentUser(h) == get_current_user("me", h)

\* main.py:102-103: POST /upload with Authorization header h
UploadImage(h) == get_current_user("upload", h)

\* the lookup of get_current_user answers and it raises, or returns the row
\* to a route that then runs without the check of main.py:98-99
GetCurrentUserLookup_nogate(q) ==
    /\ q \in InFlight
    /\ q.pc = "auth_lookup"
    /\ \E got \in get_user_by_id(q.payload.sub) :
         IF got.raised # ""
         THEN Done(q, Unhandled(got.raised))
         ELSE IF q.kind = "me"
         THEN DoneWith(q, [q EXCEPT !.existing = got.row],
                       Resp(200, "", NoToken, Summary(got.row),
                            got.row.created_at, ""))
         ELSE Resume(q, [q EXCEPT !.existing = got.row, !.pc = "file_read"])
    /\ UNCHANGED <<secretSet, hfTokenSet, serving, now, users, nextId, issued, plain>>

\* main.py:97-100; then the route runs with current = the row returned:
\* me answers (main.py:144), upload_image goes to its first await
\* (main.py:105)
GetCurrentUserLookup(q) ==
    /\ q \in InFlight
    /\ q.pc = "auth_lookup"
    /\ \E got \in get_user_by_id(q.payload.sub) :
         IF got.raised # ""
         THEN Done(q, Unhandled(got.raised))
         ELSE IF got.row = NoRow
         THEN Done(q, HTTPException(401, "User not found"))
         ELSE IF q.kind = "me"
         THEN DoneWith(q, [q EXCEPT !.existing = got.row],
                       Resp(200, "", NoToken, Summary(got.row),
                            got.row.created_at, ""))
         ELSE Resume(q, [q EXCEPT !.existing = got.row, !.pc = "file_read"])
    /\ UNCHANGED <<secretSet, hfTokenSet, serving, now, users, nextId, issued, plain>>

(***************************************************************************)
(* app/main.py:102-140  upload_image                                       *)
(***************************************************************************)
\* upload_image checking the configuration before the size of the file
UploadRead_swapped(q) ==
    /\ q \in InFlight
    /\ q.pc = "file_read"
    /\ \E size \in Sizes :
         LET contents == size
             q1 == [q EXCEPT !.contents = contents]
         IN IF ~hfTokenSet
            THEN DoneWith(q, q1,
                          HTTPException(500, "HUGGINGFACE_API_TOKEN not configured"))
            ELSE IF contents > MaxUploadBytes
            THEN DoneWith(q, q1, HTTPException(400, "File too large (8MB limit)"))
            ELSE Resume(q, [q1 EXCEPT !.pc = "hf_post", !.called = TRUE])
    /\ UNCHANGED <<secretSet, hfTokenSet, serving, now, users, nextId, issued, plain>>

\* main.py:105-119: the file is read, its size and the configuration are
\* checked, and the request to the captioning service is sent
UploadRead(q) ==
    /\ q \in InFlight
    /\ q.pc = "file_read"
    /\ \E size \in Sizes :
         LET contents == size
             q1 == [q EXCEPT !.contents = contents]
         IN IF contents > MaxUploadBytes
            THEN DoneWith(q, q1, HTTPException(400, "File too large (8MB limit)"))
            ELSE IF ~hfTokenSet
            THEN DoneWith(q, q1,
                          HTTPException(500, "HUGGINGFACE_API_TOKEN not configured"))
            ELSE Resume(q, [q1 EXCEPT !.pc = "hf_post", !.called = TRUE])
    /\ UNCHANGED <<secretSet, hfTokenSet, serving, now, users, nextId, issued, plain>>

\* main.py:119-140: the captioning service answers (or httpx raises), and the
\* caption is taken out of its reply
UploadPost(q) ==
    /\ q \in InFlight
    /\ q.pc = "hf_post"
    /\ \E resp \in HfReplies :
         LET q1 == [q EXCEPT !.reply = resp]
             hf_json == resp.json
         IN IF resp.raised # ""
            THEN DoneWith(q, q1, Unhandled(resp.raised))
            ELSE IF resp.status_code # 200
            THEN DoneWith(q, q1, HTTPException(500, "Hugging Face API error"))
            ELSE IF hf_json = NotJson
            THEN DoneWith(q, q1, Unhandled("JSONDecodeError"))
            ELSE DoneWith(q, q1,
                          [Resp(200, "", NoToken, NoUser, "", "")
                               EXCEPT !.caption = Caption(hf_json),
                                      !.raw = hf_json])
    /\ UNCHANGED <<secretSet, hfTokenSet, serving, now, users, nextId, issued, plain>>

\* the response of the request the last step completed goes out to the
\* client (the return or raise of the handler, main.py:66-144)
Respond ==
    /\ sent # NoSent
    /\ sent' = NoSent
    /\ UNCHANGED <<secretSet, hfTokenSet, serving, now, users, nextId, req,
                   issued, plain>>

\* no response is waiting to go out: the event loop runs the next handler
\* step
Ready == sent = NoSent

\* a step of the application: the event loop runs one handler up to its next
\* await or to its response, or a response goes out
Next ==
    \/ Ready /\ Startup
    \/ \E d \in {ACCESS_TOKEN_EXPIRE_DAYS, ACCESS_TOKEN_EXPIRE_DAYS + 1} :
         Ready /\ Tick(d)
    \/ \E e \in Emails, p \in RegisterPasswords : Ready /\ Register(e, p)
    \/ \E q \in InFlight : Ready /\ RegisterInsert(q)
    \/ \E e \in Emails, p \in LoginPasswords : Ready /\ Login(e, p)
    \/ \E h \in Headers : Ready /\ GetCurrentUser(h)
    \/ \E q \in InFlight : Ready /\ GetCurrentUserLookup(q)
    \/ \E h \in Headers : Ready /\ UploadImage(h)
    \/ \E q \in InFlight : Ready /\ UploadRead(q)
    \/ \E q \in InFlight : Ready /\ UploadPost(q)
    \/ Respond

Spec == Init /\ [][Next]_vars

(***************************************************************************)
(* The same service over a store whose rows can be damaged from outside    *)
(* (db.py:18: password_hash is any string).                                *)
(***************************************************************************)
Corrupt(u) ==
    /\ u \in users
    /\ u.password_hash # MalformedHash
    /\ users' = (users \ {u}) \cup {[u EXCEPT !.password_hash = MalformedHash]}
    /\ sent' = NoSent
    /\ UNCHANGED <<secretSet, hfTokenSet, serving, now, nextId, req, issued, plain>>

NextStorage ==
    \/ Next
    \/ \E u \in users : Ready /\ Corrupt(u)

SpecStorage == Init /\ [][NextStorage]_vars

(***************************************************************************)
(* The same handlers at the grain of the event loop: hash_password and     *)
(* verify_password are plain calls inside the coroutines (main.py:67, 79;  *)
(* auth.py:13-17), so bcrypt runs on the event loop's thread, and no other *)
(* coroutine runs from the call to its return.                             *)
(***************************************************************************)
\* the event loop's thread is inside bcrypt for some request
Busy == \E q \in InFlight : q.pc \in {"hashing", "verifying"}

\* the handler of request q enters a call that computes on the loop's thread
Compute(q) ==
    /\ req' = req (+) SetToBag({q})
    /\ sent' = NoSent

\* main.py:63-67: the lookup by email, the 409, the call of hash_password
RegisterHash(e, p) ==
    /\ serving
    /\ Free
    /\ nextId <= MaxId
    /\ LET existing == get_user_by_email(e)
           q == [Idle EXCEPT !.kind = "register", !.email = e, !.password = p,
                             !.existing = existing]
       IN IF existing # NoRow
          THEN Answer(q, HTTPException(409, "Email already registered"))
          ELSE Compute([q EXCEPT !.pc = "hashing"])
    /\ UNCHANGED <<secretSet, hfTokenSet, serving, now, users, nextId, issued, plain>>

\* main.py:67-69: hash_password returns or raises; the insert is awaited
RegisterHashed(q) ==
    /\ q \in InFlight
    /\ q.pc = "hashing"
    /\ \E salt \in Salts :
         LET h == hash_password(q.password, salt)
         IN IF h.raised # ""
            THEN Done(q, Unhandled(h.raised))
            ELSE Resume(q, [q EXCEPT !.pc = "reg_insert", !.hashed = h.value])
    /\ UNCHANGED <<secretSet, hfTokenSet, serving, now, users, nextId, issued, plain>>

\* main.py:75-79: the lookup by email, the 401, the call of verify_password
LoginVerify(e, p) ==
    /\ serving
    /\ Free
    /\ LET user == get_user_by_email(e)
           q == [Idle EXCEPT !.kind = "login", !.email = e, !.password = p,
                             !.existing = user]
       IN IF user = NoRow
          THEN Answer(q, HTTPException(401, "Invalid credentials"))
          ELSE Compute([q EXCEPT !.pc = "verifying"])
    /\ UNCHANGED <<secretSet, hfTokenSet, serving, now, users, nextId, issued, plain>>

\* main.py:79-82: verify_password returns or raises
LoginVerified(q) ==
    /\ q \in InFlight
    /\ q.pc = "verifying"
    /\ LET user == q.existing
           ok == verify_password(q.password, user.password_hash)
           token == create_access_token(Data(IntV(user.id), user.email, Absent),
                                        NoDelta, now)
       IN IF ok.raised # ""
          THEN /\ Done(q, Unhandled(ok.raised))
               /\ UNCHANGED issued
          ELSE IF ~ok.value
          THEN /\ Done(q, HTTPException(401, "Invalid credentials"))
               /\ UNCHANGED issued
          ELSE /\ Done(q, Resp(200, "", token, Summary(user), "", ""))
               /\ issued' = Record(Issue(token, user.id, user.email, now))
    /\ UNCHANGED <<secretSet, hfTokenSet, serving, now, users, nextId, plain>>

\* the event loop resumes the suspended request q at its await
Resumes(q) ==
    /\ Ready
    /\ ~Busy
    /\ \/ RegisterInsert(q)
       \/ GetCurrentUserLookup(q)
       \/ UploadRead(q)
       \/ UploadPost(q)

NextLoop ==
    \/ Ready /\ ~Busy /\ Startup
    \/ \E d \in {ACCESS_TOKEN_EXPIRE_DAYS, ACCESS_TOKEN_EXPIRE_DAYS + 1} :
         Ready /\ Tick(d)
    \/ \E e \in Emails, p \in RegisterPasswords :
         Ready /\ ~Busy /\ RegisterHash(e, p)
    \/ \E q \in InFlight : RegisterHashed(q)
    \/ \E e \in Emails, p \in LoginPasswords :
         Ready /\ ~Busy /\ LoginVerify(e, p)
    \/ \E q \in InFlight : LoginVerified(q)
    \/ \E h \in Headers : Ready /\ ~Busy /\ GetCurrentUser(h)
    \/ \E h \in Headers : Ready /\ ~Busy /\ UploadImage(h)
    \/ \E q \in InFlight : Resumes(q)
    \/ Respond

SpecLoop == Init /\ [][NextLoop]_vars

(***************************************************************************)
(* auth.py:19-24 on its own: create_access_token called with the data and  *)
(* the expires_delta a caller may pass                                     *)
(***************************************************************************)
\* the data dicts: a subject, an email, and no "exp" or one of the caller's
Datas ==
    { Data(IntV(i), e, x) : i \in 1..2, e \in Emails,
                            x \in {Absent, IntV(0), IntV(99)} }
\* the expires_delta arguments: None, timedelta(0), a day, a week and a day
Deltas == {NoDelta, Delta(0), Delta(1), Delta(ACCESS_TOKEN_EXPIRE_DAYS + 1)}

\* a call of create_access_token and what it returned
CreateAccessToken(data, expires_delta) ==
    /\ sent' = [kind |-> "issue", data |-> data, expires_delta |-> expires_delta,
                utcnow |-> now,
                token |-> create_access_token(data, expires_delta, now)]
    /\ UNCHANGED <<secretSet, hfTokenSet, serving, now, users, nextId, req,
                   issued, plain>>

NextIssue ==
    \/ \E d \in {ACCESS_TOKEN_EXPIRE_DAYS, ACCESS_TOKEN_EXPIRE_DAYS + 1} : Tick(d)
    \/ \E data \in Datas, expires_delta \in Deltas :
         CreateAccessToken(data, expires_delta)

SpecIssue == Init /\ [][NextIssue]_vars

(***************************************************************************)
(* Properties                                                              *)
(***************************************************************************)
\* the tokens a client can present
Presentable == ForeignTokens \cup { i.token : i \in issued }

\* the token's expiry has passed at time t
Expired(tok, t) == tok.form = "jws" /\ tok.exp.t = "int" /\ tok.exp.v < t

\* the step answered a request of this kind
Answered(kind) == sent # NoSent /\ sent.kind = kind

InvalidCredentials == HTTPException(401, "Invalid credentials")
InvalidToken == HTTPException(401, "Invalid token")

\* C1: a token returned by a successful register or login, presented as
\* "Bearer <token>" before its expiry, resolves to the user it was issued for.
C1_IssuedTokenResolves ==
    \A i \in issued :
        (Answered("me") /\ sent.header = Bearer(i.token) /\ now <= i.token.exp.v)
        => /\ sent.resp.status = 200
           /\ sent.resp.user = [id |-> i.id, email |-> i.email]

\* C2: decoding a token right after register or login issued it returns
\* claims, not the invalid sentinel, with the subject and email it was issued
\* for.
C2_DecodeOfIssued ==
    \A i \in issued :
        i.at = now =>
            LET d == decode_token(i.token, now)
            IN /\ d.raised = ""
               /\ d.payload.valid
               /\ d.payload.sub = IntV(i.id)
               /\ d.payload.email = i.email

\* C3: no two rows of the users table have the same email ...
C3_UniqueEmail == \A u, v \in users : u.email = v.email => u = v

\* ... a register that succeeds found no row with its email and adds exactly
\* one, and a register that ends while a row with its email exists fails
\* with 409 or with the unique violation of the store, and adds none
C3_RegisterStep ==
    (sent' # NoSent /\ sent'.kind = "register") =>
        LET had == \E u \in users : u.email = sent'.email
        IN /\ sent'.resp.status = 200 =>
                /\ ~had
                /\ sent'.resp.token # NoToken
                /\ users' = users \cup {Row(sent'.resp.user.id, sent'.email,
                                            sent'.hashed, ServerNow)}
                /\ \A u \in users : u.id # sent'.resp.user.id
           /\ had =>
                /\ \/ sent'.resp.status = 409
                   \/ sent'.resp.status = 500 /\ sent'.resp.err = "UniqueViolationError"
                /\ sent'.resp.token = NoToken
                /\ users' = users

C4_Conflict ==
    (Answered("register") /\ sent.existing # NoRow) =>
        /\ sent.resp = HTTPException(409, "Email already registered")
        /\ sent.hashed = NoHash
        /\ sent.resp.token = NoToken

\* and its step leaves the table, the serial and the issued tokens alone
C4_ConflictStep ==
    (sent' # NoSent /\ sent'.kind = "register" /\ sent'.existing # NoRow) =>
        /\ users' = users
        /\ nextId' = nextId
        /\ issued' = issued

\* C4: a register whose lookup finds an existing user fails with 409 Conflict;
\* no password is hashed, no user record is created or changed and no token
\* is issued.
C4_ConflictNoEffect == []C4_Conflict /\ [][C4_ConflictStep]_vars

C4_Witness ==
    /\ Answered("register")
    /\ sent.existing # NoRow
    /\ sent.resp.status = 409

\* C5: every failed login gets the response an unknown email gets (main.py:78):
\* 401 "Invalid credentials", whether or not the account exists.
C5_FailedLoginUniform ==
    (Answered("login") /\ sent.resp.status # 200) => sent.resp = InvalidCredentials

\* C6: once register(e, p) succeeded, login(e, p2) succeeds with a token and
\* the user's {id, email} exactly when p2 = p, and for every other p2 it is
\* answered 401 and issues no token.
C6_LoginIffSamePassword ==
    (Answered("login") /\ plain[sent.email] # NoPassword) =>
        LET p == plain[sent.email]
            u == get_user_by_email(sent.email)
        IN /\ (sent.password = p) <=>
                  /\ sent.resp.status = 200
                  /\ sent.resp.token # NoToken
                  /\ sent.resp.user = Summary(u)
           /\ (sent.password # p) => sent.resp = InvalidCredentials

\* decode_token returns the invalid sentinel for every expired token
C7_DecodeRejects ==
    \A tok \in Presentable : Expired(tok, now) => decode_token(tok, now) = Decoded(None)

\* a request presenting an expired token is answered 401 "Invalid token", and
\* a token that is expired stays expired
C7_Step ==
    \A tok \in Presentable :
        Expired(tok, now) =>
            /\ GetCurrentUser(Bearer(tok)) => sent'.resp = InvalidToken
            /\ Expired(tok, now')
            /\ decode_token(tok, now') = Decoded(None)

\* C7: a token whose expiry has passed is rejected, whatever its subject:
\* decode_token returns the invalid sentinel and identity resolution answers
\* 401 "Invalid token"; once rejected for expiry it is rejected at every
\* later time.
C7_ExpiredRejected == []C7_DecodeRejects /\ [][C7_Step]_vars

\* a token that only its expiry makes invalid was presented and refused
C7_Witness ==
    /\ Answered("me")
    /\ \E tok \in Presentable :
         /\ sent.header = Bearer(tok)
         /\ Expired(tok, now)
         /\ jwt_decode([tok EXCEPT !.exp = Absent], JWT_SECRET, now).raised = ""
    /\ sent.resp = InvalidToken

\* C8: verify_password never raises; for a stored hash that hash_password did
\* not produce it returns false, and the login against such a row is answered
\* 401 "Invalid credentials".
C8_VerifyNeverRaises ==
    (Answered("login") /\ sent.existing.password_hash.scheme # "bcrypt") =>
        /\ verify_password(sent.password, sent.existing.password_hash) = Ret(FALSE)
        /\ sent.resp = InvalidCredentials

\* C9: decode_token never raises: a presented token that is not valid gives
\* the invalid sentinel, and identity resolution answers it 401 "Invalid
\* token".
C9_DecodeNeverRaises ==
    \A tok \in Presentable :
        (Answered("me") /\ sent.header = Bearer(tok) /\ sent.payload = None) =>
            /\ decode_token(tok, now) = Decoded(None)
            /\ sent.resp = InvalidToken

\* C10: without JWT_SECRET in the environment the service never serves, and
\* never issues or accepts a token.
C10_NoServiceWithoutSecret ==
    ~secretSet => /\ ~serving
                  /\ issued = {}
                  /\ sent = NoSent

(***************************************************************************)
(* Identity resolution (main.py:86-100)                                    *)
(***************************************************************************)
\* the step answered a request to a protected route
AnsweredProtected == sent # NoSent /\ sent.kind \in {"me", "upload"}

\* the header has no value: it is absent, or its value is the empty string
NoValue(h) == ~h.present \/ h.raw = <<>>
\* the header is two parts, the first of them "Bearer"
TwoPartBearer(h) ==
    /\ h.present
    /\ Len(split(h.raw)) = 2
    /\ split(h.raw)[1].text = "Bearer"
\* a user with the id the subject names is in the directory
LiveUser(sub) == sub.t \in {"int", "str"} /\ RowById(sub.v) # NoRow

MissingHeader == HTTPException(401, "Missing Authorization header")
InvalidHeader == HTTPException(401, "Invalid auth header")
UserNotFound == HTTPException(401, "User not found")

\* C11: identity resolution reports the first check that fails, in this
\* order: no header gives 401 "Missing Authorization header"; else a header
\* that is not two parts with scheme Bearer gives 401 "Invalid auth header";
\* else a token that does not decode to claims gives 401 "Invalid token";
\* else a subject with no live user gives 401 "User not found"; each of them
\* without a user in the response.
C11_FirstFailureReported ==
    AnsweredProtected =>
        LET h == sent.header
        IN /\ NoValue(h) => sent.resp = MissingHeader
           /\ (~NoValue(h) /\ ~TwoPartBearer(h)) => sent.resp = InvalidHeader
           /\ (TwoPartBearer(h) /\ ~sent.payload.valid) => sent.resp = InvalidToken
           /\ (TwoPartBearer(h) /\ sent.payload.valid
                    /\ ~LiveUser(sent.payload.sub))
                  => sent.resp = UserNotFound

\* C12 as stated: every header value that is not two parts with first part
\* "Bearer" is answered 401 "Invalid auth header".
C12_EveryOtherHeaderInvalid ==
    (AnsweredProtected /\ sent.header.present /\ ~TwoPartBearer(sent.header))
        => sent.resp = InvalidHeader

\* C12, amended: resolution goes on to the token only for a header of exactly
\* two whitespace-separated parts whose first is literally "Bearer"; every
\* other non-empty header value is answered 401 "Invalid auth header" with
\* no token decoded, and the empty value is answered 401 "Missing
\* Authorization header".
C12_HeaderParsing ==
    /\ AnsweredProtected =>
          LET h == sent.header
          IN /\ (h.present /\ h.raw # <<>> /\ ~TwoPartBearer(h)) =>
                    /\ sent.resp = InvalidHeader
                    /\ sent.payload = None
             /\ (h.present /\ h.raw = <<>>) => sent.resp = MissingHeader
             /\ sent.resp \notin {MissingHeader, InvalidHeader} => TwoPartBearer(h)
    /\ \A q \in InFlight :
          q.kind \in {"me", "upload"} => TwoPartBearer(q.header)

\* "bearer x" was presented and refused
C12_Witness ==
    /\ AnsweredProtected
    /\ sent.header = Header(<<Word("bearer"), Space, Word("x")>>)
    /\ sent.resp = InvalidHeader

(***************************************************************************)
(* Protected routes (main.py:102-144)                                      *)
(***************************************************************************)
\* the requests the server knows of: those suspended and the one just answered
Requests == InFlight \cup (IF sent = NoSent THEN {} ELSE {sent})
Protected == { q \in Requests : q.kind \in {"me", "upload"} }

\* identity resolution succeeded for the request: a two-part Bearer header,
\* a token that decoded, and the row of the user its subject names
Resolved(q) ==
    /\ TwoPartBearer(q.header)
    /\ q.payload.valid
    /\ q.existing # NoRow
    /\ q.existing \in users
    /\ q.existing.id = q.payload.sub.v

\* the route's own logic ran for the request: the file was read, the
\* captioning service was called or answered, or a 200 with profile data or
\* a caption was returned
Ran(q) ==
    \/ q.pc \in {"file_read", "hf_post"}
    \/ q.contents # Unread
    \/ q.called
    \/ q.reply # NoReply
    \/ q.resp.status = 200
    \/ q.resp.user # NoUser
    \/ q.resp.caption # NoJson

\* C13: upload and /me run their own logic (reading the file, calling the
\* captioning service, returning profile data) only for a request whose
\* identity resolution succeeded, never for one whose resolution failed.
C13_GateBeforeLogic == \A q \in Protected : Ran(q) => Resolved(q)

\* an upload went through resolution, the file read and the external call
C13_Witness ==
    /\ sent # NoSent
    /\ sent.kind = "upload"
    /\ Resolved(sent)
    /\ sent.called
    /\ sent.resp.status = 200

(***************************************************************************)
(* Tamper evidence (auth.py:19-31, main.py:93-100)                         *)
(***************************************************************************)
\* the token of a two-part header
TokenOf(q) == split(q.header.raw)[2].tok

\* every token register and login can return in this deployment
Issuable ==
    { create_access_token(Data(IntV(i), e, Absent), NoDelta, t) :
        i \in 1..(MaxId + 1), e \in Emails, t \in 0..MaxTime }

\* C14: a token that the service's issue operation did not produce (never
\* issued, or differing from an issued one) is rejected as invalid: it does
\* not decode to claims, and the request presenting it never resolves to a
\* user or succeeds.
C14_OnlyIssuedTokensAccepted ==
    \A q \in Protected :
        (TwoPartBearer(q.header) /\ TokenOf(q) \notin Issuable) =>
            /\ ~q.payload.valid
            /\ ~Resolved(q)
            /\ q.resp.status # 200

(***************************************************************************)
(* Responses (main.py:62-144)                                              *)
(***************************************************************************)
\* the response carries the stored hash h
Exposes(resp, h) ==
    \/ "password_hash" \in DOMAIN resp \cup DOMAIN resp.user
    \/ h \in {resp.token, resp.user, resp.caption, resp.raw}

\* C15: no response of register, login, /me or upload, successful or failed,
\* contains a user's password_hash; the user summary of a response is exactly
\* {id, email} of the user, and /me adds the row's created_at.
C15_HashNeverReturned ==
    sent # NoSent =>
        /\ \A u \in users : ~Exposes(sent.resp, u.password_hash)
        /\ DOMAIN sent.resp.user = {"id", "email"}
        /\ (sent.kind \in {"register", "login"} /\ sent.resp.status = 200) =>
               \E u \in users : /\ u.email = sent.email
                                /\ sent.resp.user = [id |-> u.id, email |-> u.email]
        /\ (sent.kind = "me" /\ sent.resp.status = 200) =>
               /\ sent.resp.user = [id |-> sent.existing.id,
                                    email |-> sent.existing.email]
               /\ sent.resp.created_at = sent.existing.created_at
        /\ sent.kind # "me" => sent.resp.created_at = ""
        /\ sent.kind = "upload" => sent.resp.user = NoUser

\* a login succeeded for a user whose row holds a hash
C15_Witness ==
    /\ Answered("login")
    /\ sent.resp.status = 200
    /\ sent.existing.password_hash.scheme = "bcrypt"
    /\ sent.existing \in users

(***************************************************************************)
(* Expiry of issued tokens (auth.py:19-24)                                 *)
(***************************************************************************)
\* C16: the token create_access_token returns expires at now + ttl for every
\* ttl the caller passes, a ttl of zero included, and at now + 7 days only
\* when none is passed; an "exp" in the caller's data is replaced by it, and
\* the other claims are the caller's.
C16_ExpiryIsNowPlusTtl ==
    sent.kind = "issue" =>
        LET ttl == IF sent.expires_delta.given THEN sent.expires_delta.days
                   ELSE ACCESS_TOKEN_EXPIRE_DAYS
        IN /\ sent.token.exp = IntV(sent.utcnow + ttl)
           /\ sent.token.sub = sent.data.sub
           /\ sent.token.email = sent.data.email

(***************************************************************************)
(* Hashing and the event loop (main.py:67, 79)                             *)
(***************************************************************************)
\* C17: while one register or login request is hashing or verifying a
\* password, every other request in flight can still take its next step.
C17_HashingDoesNotBlock ==
    \A q \in InFlight :
        (Busy /\ q.pc \notin {"hashing", "verifying"}) => ENABLED Resumes(q)

(***************************************************************************)
(* The user directory (db.py:13-20) under the routes                       *)
(***************************************************************************)
\* the step completed a register with a 200
RegisteredNow == sent' # NoSent /\ sent'.kind = "register" /\ sent'.resp.status = 200

\* a step changes the table only by a successful register, which adds one
\* row, with a new id and the request's email, and leaves the others alone
C18_Step ==
    /\ users \subseteq users'
    /\ users' # users =>
          /\ RegisteredNow
          /\ \E r \in users' \ users :
                /\ users' = users \cup {r}
                /\ r.id = sent'.resp.user.id
                /\ r.email = sent'.email
                /\ \A u \in users : u.id # r.id
    /\ ~RegisteredNow => users' = users

\* ids name one row each, and the row with the id a token was issued for has
\* the email it was issued for; a request presenting that token resolves to
\* no other user
C18_IssuedForSameUser ==
    /\ \A u, v \in users : u.id = v.id => u = v
    /\ \A i \in issued :
          /\ \A u \in users : u.id = i.id => u.email = i.email
          /\ \A q \in Protected :
                (q.header = Bearer(i.token) /\ q.existing # NoRow) =>
                    q.existing.email = i.email

\* C18: login, identity resolution, /me, upload and every failed register
\* leave the users table unchanged; the only change is a successful register
\* adding one row; a row's id, email and password_hash never change, so a
\* token issued for id i never resolves to a user with another email.
C18_DirectoryFrame == []C18_IssuedForSameUser /\ [][C18_Step]_vars

\* a login was answered with two users in the table and a token in the history
C18_Witness ==
    /\ Answered("login")
    /\ Cardinality(users) = 2
    /\ issued # {}

(***************************************************************************)
(* upload_image (main.py:102-140)                                          *)
(***************************************************************************)
Uploads == { q \in Requests : q.kind = "upload" }
FileTooLarge == HTTPException(400, "File too large (8MB limit)")
NotConfigured == HTTPException(500, "HUGGINGFACE_API_TOKEN not configured")

\* C19: upload calls the captioning service only after identity resolution
\* succeeded, then the file was found to be at most 8 MiB (else 400), then
\* the API token was found configured (else 500); when one of them fails
\* there is no call; and a reply that is not a 200 is reported as a 500,
\* never as a success.
C19_UploadOrder ==
    \A q \in Uploads :
        /\ q.contents # Unread => Resolved(q)
        /\ q.called =>
              /\ Resolved(q)
              /\ q.contents # Unread
              /\ q.contents <= MaxUploadBytes
              /\ hfTokenSet
        /\ (q.pc = "done" /\ ~Resolved(q)) =>
              /\ ~q.called
              /\ q.resp.status \in {401, 500}
        /\ q.contents > MaxUploadBytes =>
              /\ ~q.called
              /\ q.pc = "done"
              /\ q.resp = FileTooLarge
        /\ (q.contents # Unread /\ q.contents <= MaxUploadBytes /\ ~hfTokenSet) =>
              /\ ~q.called
              /\ q.pc = "done"
              /\ q.resp = NotConfigured
        /\ (q.reply # NoReply /\ q.reply.status_code # 200) =>
              /\ q.called
              /\ q.resp.status = 500
              /\ q.resp.caption = NoJson
        /\ q.resp.status = 200 =>
              /\ q.called
              /\ q.reply.status_code = 200

\* the captioning service was called and answered 503, reported as a 500
C19_Witness ==
    /\ sent # NoSent
    /\ sent.kind = "upload"
    /\ sent.called
    /\ sent.reply.raised = ""
    /\ sent.reply.status_code # 200
    /\ sent.resp.status = 500

\* C20: for every 200 reply of the captioning service with a JSON body,
\* whatever its shape, upload returns success with a caption that is a
\* string.
C20_CaptionIsString ==
    \A q \in Uploads :
        (q.reply.raised = "" /\ q.reply.status_code = 200 /\ q.reply.json # NotJson)
            => /\ q.resp.status = 200
               /\ q.resp.caption.t = "str"

====
